---- MODULE Spec2Model ----
(***************************************************************************)
(* Model of the multi-user email automation backend (src/backend).         *)
(*                                                                         *)
(* Spec       the HTTP API of main_api.py over the emails table of         *)
(*            db_updated.py and the in-memory pending_responses dict.      *)
(*            Every handler is an `async def` that never awaits, so one    *)
(*            request is one atomic step of the event loop.  A handler is  *)
(*            modelled by an operator that computes its outcome (the new   *)
(*            state and the response) and an action that installs the new  *)
(*            state; the response is read off the outcome.  Of a           *)
(*            PendingResponse the draft, the saved edit and the            *)
(*            classification are modelled.                                 *)
(*                                                                         *)
(* SpecGen    LLMClient.generate_response (llm_client.py) applied to an    *)
(*            LLM answer drawn from the token strings of bounded length,   *)
(*            alone and from within process_emails.                        *)
(*                                                                         *)
(* SpecWf     runs of HumanInLoopWorkflow (langgraph_workflow.py), one     *)
(*            step per node of the graph.                                  *)
(*                                                                         *)
(* SpecUsers  concurrent create_user and create_user_from_google calls     *)
(*            (auth.py) over the users table, one step per database        *)
(*            statement.                                                   *)
(*                                                                         *)
(* Every specification owns some of the variables and leaves the others    *)
(* at their idle values.                                                   *)
(*                                                                         *)
(* A value that a piece of code computes once and uses several times is    *)
(* passed as an argument to the operator that models the rest of the code  *)
(* (named ...Of), so that it is written once.                              *)
(***************************************************************************)
EXTENDS Integers, Sequences, FiniteSets, TLC

VARIABLES
    emails,      \* the emails table: message id -> row (NoRec: no row)
    pending,     \* pending_responses: user -> message id -> PendingResponse
    sentCount,   \* replies sent from a user's mailbox, per message
    llmReply,    \* SpecGen: what the LLM answers to generate_response
    generated,   \* SpecGen: what generate_response returned for a subject
    wf,          \* SpecWf: the workflow run (state dict, position, history)
    users,       \* SpecUsers: the committed rows of the users table
    reqs         \* SpecUsers: the requests in flight, each with its session

apiVars == <<emails, pending, sentCount>>
genVars == <<llmReply, generated>>
wfVars == <<wf>>
userVars == <<users, reqs>>
vars == <<emails, pending, sentCount, llmReply, generated, wf, users, reqs>>

-----------------------------------------------------------------------------
(* Bounds and finite domains                                               *)

\* a (user, message) pair receives at most MaxSent replies in the model
MaxSent == 2
\* a batch-approve request carries at most MaxBatch items
MaxBatch == 1

Users == {"u1", "u2"}
\* message ids a request may name
Msgs == {"m1", "m2"}
MsgOrder == <<"m1", "m2">>
\* the unread messages a user's mailbox may hold: each mailbox may hold a
\* message with id m1, and m2 is the id of no message
Mailbox(u) == {"m1"}

None == "None"

-----------------------------------------------------------------------------
(* models.py                                                               *)

\* EmailAnalysis, restricted to the fields the API stores or decides on
NoCls == [category |-> None, priority |-> 0, requires_response |-> FALSE,
          sentiment |-> None]
\* the classification analyze_email returns (when it returns)
EmailAnalysis ==
    { [category |-> "marketing", priority |-> 1, requires_response |-> FALSE,
       sentiment |-> "neutral"] }

\* EmailDecision.action
DecisionActions == {"respond", "skip"}

\* no EmailResponse
NoEmailResponse == [response_body |-> None, tone |-> None, confidence |-> 0]

\* ProcessedEmail.status as written by the API
Statuses == {"responded", "skipped", "rejected"}

-----------------------------------------------------------------------------
(* db_updated.py: the emails table.  The primary key is the column id      *)
(* alone, so the table holds at most one row per message id.               *)

NoRec == [user_id |-> None, status |-> None, category |-> None,
          priority |-> 0, sentiment |-> None, response_sent |-> None]

\* a or b, on optional strings
OrElse(a, b) == IF a # None /\ a # "" THEN a ELSE b
OrElseInt(a, b) == IF a # 0 THEN a ELSE b

\* Database.is_processed(email_id, user_id)
is_processed(tbl, email_id, user_id) ==
    /\ tbl[email_id] # NoRec
    /\ tbl[email_id].user_id = user_id

\* Database.mark_as_processed: the table after the call, and whether the
\* call returned ("ok") or raised ("integrity": the INSERT hit the primary
\* key of another user's row; "dbdown": the database call failed).
mark_as_processed(tbl, email_id, user_id, status, response_sent, cls, dbok) ==
    IF ~dbok THEN [tbl |-> tbl, res |-> "dbdown"]
    ELSE IF is_processed(tbl, email_id, user_id)
    THEN [tbl |-> [tbl EXCEPT ![email_id] =
                     [user_id |-> user_id,
                      status |-> status,
                      category |-> OrElse(cls.category, @.category),
                      priority |-> OrElseInt(cls.priority, @.priority),
                      sentiment |-> OrElse(cls.sentiment, @.sentiment),
                      response_sent |-> response_sent]],
          res |-> "ok"]
    ELSE IF tbl[email_id] = NoRec
    THEN [tbl |-> [tbl EXCEPT ![email_id] =
                     [user_id |-> user_id,
                      status |-> status,
                      category |-> cls.category,
                      priority |-> cls.priority,
                      sentiment |-> cls.sentiment,
                      response_sent |-> response_sent]],
          res |-> "ok"]
    ELSE [tbl |-> tbl, res |-> "integrity"]

-----------------------------------------------------------------------------
(* llm_client.py: LLMClient.generate_response.  The text returned by the   *)
(* LLM is a sequence of tokens:                                            *)
(*   "{" "}"  braces                                                       *)
(*   "v"      members that form a valid EmailResponse                      *)
(*   "b"      members that are JSON but fail EmailResponse validation      *)
(*   "n"      a JSON scalar                                                *)
(*   "t"      free text that is not JSON                                   *)
(* Confidence is counted in tenths.                                        *)

Tokens == {"{", "}", "v", "b", "n", "t"}

Subjects == {"s1", "s2"}
Subject(m) == IF m = "m1" THEN "s1" ELSE "s2"

\* the f-string of the fallback body: it quotes the subject
FallbackBody(subject) == "Thank you for your email regarding: " \o subject

FallbackTone == "formal"
FallbackConfidence == 5

Fallback(subject) ==
    [response_body |-> FallbackBody(subject), tone |-> FallbackTone,
     confidence |-> FallbackConfidence]

\* EmailResponse validation (models.py): tone is a Literal, confidence is
\* within [0, 1], response_body is present
ValidEmailResponse(r) ==
    /\ r.response_body # None
    /\ r.tone \in {"formal", "casual", "friendly"}
    /\ r.confidence \in 0..10

\* the object the members "v" and "b" decode to; {} has no members
ParsedData(s) ==
    IF s = <<"{", "v", "}">>
    THEN [response_body |-> "d1", tone |-> "friendly", confidence |-> 9]
    ELSE IF s = <<"{", "b", "}">>
    THEN [response_body |-> "d1", tone |-> "angry", confidence |-> 9]
    ELSE NoEmailResponse

\* json.loads on a token string: "object", "scalar" (JSON, not an object)
\* or "error" (JSONDecodeError)
json_loads(s) ==
    IF s \in {<<"{", "v", "}">>, <<"{", "b", "}">>, <<"{", "}">>} THEN "object"
    ELSE IF s = <<"n">> THEN "scalar"
    ELSE "error"

\* re.search(r'\{[\s\S]*\}', text): greedy, from the first "{" to the last
\* "}" after it; <<>> when there is no match
FirstOpen(s) ==
    IF \E i \in 1..Len(s) : s[i] = "{"
    THEN CHOOSE i \in 1..Len(s) : s[i] = "{" /\ \A j \in 1..(i-1) : s[j] # "{"
    ELSE 0
LastClose(s) ==
    IF \E i \in 1..Len(s) : s[i] = "}"
    THEN CHOOSE i \in 1..Len(s) : s[i] = "}" /\ \A j \in (i+1)..Len(s) : s[j] # "}"
    ELSE 0
MatchOf(s, first, last) ==
    IF first > 0 /\ last > first THEN SubSeq(s, first, last) ELSE <<>>
json_match(s) == MatchOf(s, FirstOpen(s), LastClose(s))

\* return EmailResponse(**json.loads(s)) inside a try that catches only
\* JSONDecodeError: "return" with the response, "raise" (ValidationError,
\* or TypeError on a scalar), or "decode_error"
ParseOf(loaded, data) ==
    [kind |-> IF loaded = "error" THEN "decode_error"
              ELSE IF loaded = "scalar" THEN "raise"
              ELSE IF ValidEmailResponse(data) THEN "return"
              ELSE "raise",
     value |-> data]
ParseAttempt(s) == ParseOf(json_loads(s), ParsedData(s))

\* the try block of generate_response: "return" with a response, "raise",
\* or "fall" through to the fallback; a1 is the attempt on the regex match
\* m, a2 the attempt on the whole text
TryOf(raises, m, a1, a2) ==
    IF raises THEN [kind |-> "raise", value |-> a2.value]
    ELSE IF m # <<>> /\ a1.kind # "decode_error" THEN a1
    ELSE IF a2.kind # "decode_error" THEN a2
    ELSE [kind |-> "fall", value |-> a2.value]
GenerateTry(llm) ==
    TryOf(llm.raises, json_match(llm.text), ParseAttempt(json_match(llm.text)),
          ParseAttempt(llm.text))

\* generate_response without its outer `except Exception`
GenerateOf_no_except(t, fallback) ==
    IF t.kind = "return" THEN [raised |-> FALSE, value |-> t.value]
    ELSE IF t.kind = "raise" THEN [raised |-> TRUE, value |-> fallback]
    ELSE [raised |-> FALSE, value |-> fallback]

\* the try block returned, or the fallback is returned
GenerateOf(t, fallback) ==
    IF t.kind = "return" THEN [raised |-> FALSE, value |-> t.value]
    ELSE [raised |-> FALSE, value |-> fallback]

\* LLMClient.generate_response(subject, ...) for an LLM call that raises
\* (llm.raises) or returns llm.text; raised tells whether the call raised
generate_response(subject, llm) == GenerateOf(GenerateTry(llm), Fallback(subject))

-----------------------------------------------------------------------------
(* main_api.py: state                                                      *)

NoPending == [draft_response |-> None, edited_response |-> None,
              category |-> None, priority |-> 0, sentiment |-> None]

\* an LLM call that raises
NoReply == [raises |-> TRUE, text |-> <<>>]
\* generate_response was not called
NoResponse == [subject |-> None, raised |-> FALSE, value |-> NoEmailResponse]
\* no workflow run was started
NoWf == [node |-> "idle", trace |-> <<>>, category |-> None, decision |-> None,
         response_body |-> None, approval_status |-> None,
         user_approval |-> FALSE, sent |-> None, db |-> None,
         auto_approve |-> {}, require_approval |-> TRUE]
\* no request
NoReq == [kind |-> "idle", pc |-> "done", email |-> None, google_id |-> None,
          seen |-> 0, existed |-> FALSE, result |-> None]
Procs == {"p1", "p2"}

ApiInit ==
    /\ emails = [m \in Msgs |-> NoRec]
    /\ pending = [u \in Users |-> [m \in Msgs |-> NoPending]]
    /\ sentCount = [u \in Users |-> [m \in Msgs |-> 0]]
GenIdle == llmReply = NoReply /\ generated = NoResponse
WfIdle == wf = NoWf
UsersIdle == users = <<>> /\ reqs = [p \in Procs |-> NoReq]

Init == ApiInit /\ GenIdle /\ WfIdle /\ UsersIdle

\* pending_responses.get(user_id, {}) as a set of message ids
user_pending(pend, u) == {m \in Msgs : pend[u][m] # NoPending}

-----------------------------------------------------------------------------
(* GET /api/emails/fetch                                                   *)

\* the response of fetch_new_emails when fetch_unread_emails returned unread
FetchRun(tbl, u, connected, unread) ==
    IF ~connected THEN [http |-> 500, ids |-> {}]
    ELSE [http |-> 200, ids |-> {m \in unread : ~is_processed(tbl, m, u)}]

fetch_new_emails(u, connected, unread) ==
    /\ FetchRun(emails, u, connected, unread).http \in {200, 500}
    /\ UNCHANGED vars

-----------------------------------------------------------------------------
(* POST /api/emails/process                                                *)

\* what the LLM returns to generate_response in a process_emails run
LLMReplies ==
    { [raises |-> TRUE, text |-> <<>>],
      [raises |-> FALSE, text |-> <<"t", "{", "v", "}">>] }

\* what happens to one message of the loop: analyze_email or decide_action
\* raises ("error"), or the LLM classifies it as cls and decides kind;
\* llm is the LLM's answer to generate_response, dbok the database's health
NoOutcome == [kind |-> "error", cls |-> NoCls, llm |-> NoReply, dbok |-> TRUE]
Outcomes ==
    {NoOutcome}
    \cup [kind : {"skip"}, cls : EmailAnalysis, llm : {NoReply}, dbok : BOOLEAN]
    \cup [kind : {"respond"}, cls : EmailAnalysis, llm : LLMReplies, dbok : {TRUE}]

\* the PendingResponse process_emails stores for a drafted reply
NewPending(cls, response) ==
    [draft_response |-> response.response_body, edited_response |-> None,
     category |-> cls.category, priority |-> cls.priority,
     sentiment |-> cls.sentiment]

\* one iteration of the loop of process_emails over message m: the table and
\* the pending dict after it, and what the iteration did ("already_processed",
\* "error", "skipped", "drafted"); r is the outcome of the mark_as_processed
\* call of the skip branch, g that of the generate_response call
ProcessOneOf_no_is_processed(tbl, pend, u, m, o, r, g) ==
    IF o.kind = "error"
    THEN [tbl |-> tbl, pend |-> pend, did |-> "error"]
    ELSE IF o.kind = "skip"
    THEN [tbl |-> r.tbl, pend |-> pend,
          did |-> IF r.res = "ok" THEN "skipped" ELSE "error"]
    ELSE IF g.raised
    THEN [tbl |-> tbl, pend |-> pend, did |-> "error"]
    ELSE [tbl |-> tbl,
          pend |-> [pend EXCEPT ![u][m] = NewPending(o.cls, g.value)],
          did |-> "drafted"]
ProcessOneOf(tbl, pend, u, m, o, r, g) ==
    IF is_processed(tbl, m, u)
    THEN [tbl |-> tbl, pend |-> pend, did |-> "already_processed"]
    ELSE IF o.kind = "error"
    THEN [tbl |-> tbl, pend |-> pend, did |-> "error"]
    ELSE IF o.kind = "skip"
    THEN [tbl |-> r.tbl, pend |-> pend,
          did |-> IF r.res = "ok" THEN "skipped" ELSE "error"]
    ELSE IF g.raised
    THEN [tbl |-> tbl, pend |-> pend, did |-> "error"]
    ELSE [tbl |-> tbl,
          pend |-> [pend EXCEPT ![u][m] = NewPending(o.cls, g.value)],
          did |-> "drafted"]
ProcessOne(tbl, pend, u, m, o) ==
    ProcessOneOf(tbl, pend, u, m, o,
                 mark_as_processed(tbl, m, u, "skipped", None, o.cls, o.dbok),
                 generate_response(Subject(m), o.llm))

\* the loop of process_emails over the messages ms: st[i] is the state
\* after i iterations
ProcessStepOf(prev, m, one) ==
    [tbl |-> one.tbl, pend |-> one.pend, ms |-> Append(prev.ms, m),
     did |-> Append(prev.did, one.did)]
ProcessStep(prev, u, m, o) ==
    ProcessStepOf(prev, m, ProcessOne(prev.tbl, prev.pend, u, m, o))
ProcessLoop(tbl, pend, u, ms, out) ==
    LET st[i \in 0..Len(ms)] ==
            IF i = 0 THEN [tbl |-> tbl, pend |-> pend, ms |-> <<>>, did |-> <<>>]
            ELSE ProcessStep(st[i-1], u, ms[i], out[ms[i]])
    IN st[Len(ms)]

\* process_emails: unread is what fetch_unread_emails returned, out[m] what
\* the LLM and the database do for message m
ProcessRunOf(u, connected, r) ==
    IF ~connected
    THEN [tbl |-> r.tbl, pend |-> r.pend, http |-> 500, ms |-> <<>>,
          did |-> <<>>, processed_count |-> 0, pending_count |-> 0]
    ELSE [tbl |-> r.tbl, pend |-> r.pend, http |-> 200, ms |-> r.ms,
          did |-> r.did,
          processed_count |->
              Cardinality({i \in 1..Len(r.did) : r.did[i] = "drafted"}),
          pending_count |-> Cardinality(user_pending(r.pend, u))]
ProcessRun(tbl, pend, u, connected, unread, out) ==
    ProcessRunOf(u, connected,
                 ProcessLoop(tbl, pend, u,
                             IF connected
                             THEN SelectSeq(MsgOrder, LAMBDA m : m \in unread)
                             ELSE <<>>,
                             out))

ProcessInstall(r) ==
    /\ emails' = r.tbl
    /\ pending' = r.pend
    /\ UNCHANGED sentCount
    /\ UNCHANGED <<wfVars, userVars>>
process_emails(u, connected, unread, out) ==
    /\ ProcessInstall(ProcessRun(emails, pending, u, connected, unread, out))
    /\ UNCHANGED genVars

\* the inputs of a run: outcomes only where the loop consults them
ProcessInputs(u, unread) ==
    { out \in [Msgs -> Outcomes] :
        \A m \in Msgs : (m \notin unread \/ is_processed(emails, m, u))
                            => out[m] = NoOutcome }

-----------------------------------------------------------------------------
(* POST /api/approve/{email_id}                                            *)

\* what the mailbox and the database do during one request or batch item:
\* all calls succeed ("ok"), create_gmail_client_for_user raises, send_reply
\* returns False or raises, or the reply is sent and the database call fails
Envs == {"ok", "client_raises", "send_false", "send_raises", "db_fails"}

Actions == {"approve", "edit", "save_edit", "reject", "other"}
Edits == {None, "e1"}

\* the classification fields a PendingResponse carries
PendingCls(p) ==
    [category |-> p.category, priority |-> p.priority,
     requires_response |-> FALSE, sentiment |-> p.sentiment]

\* an outcome that leaves the state alone
Unchanged(tbl, pend, sent, code) ==
    [tbl |-> tbl, pend |-> pend, sent |-> sent, code |-> code,
     wasSent |-> FALSE, body |-> None, mark |-> "none"]

\* gmail_client.send_reply followed, on success, by mark_as_processed with
\* status responded (outcome r) and `del user_pending[email_id]`
SendAndMarkOf_forget_on_failure(tbl, pend, sent, u, m, body, env, r) ==
    IF env = "send_false"
    THEN Unchanged(tbl, [pend EXCEPT ![u][m] = NoPending], sent, "send_failed")
    ELSE IF env = "send_raises" THEN Unchanged(tbl, pend, sent, "error")
    ELSE [tbl |-> r.tbl,
          pend |-> IF r.res = "ok" THEN [pend EXCEPT ![u][m] = NoPending]
                   ELSE pend,
          sent |-> [sent EXCEPT ![u][m] = @ + 1],
          code |-> IF r.res = "ok" THEN "success" ELSE "error",
          wasSent |-> TRUE, body |-> body, mark |-> r.res]
SendAndMarkOf(tbl, pend, sent, u, m, body, env, r) ==
    IF env = "send_false" THEN Unchanged(tbl, pend, sent, "send_failed")
    ELSE IF env = "send_raises" THEN Unchanged(tbl, pend, sent, "error")
    ELSE [tbl |-> r.tbl,
          pend |-> IF r.res = "ok" THEN [pend EXCEPT ![u][m] = NoPending]
                   ELSE pend,
          sent |-> [sent EXCEPT ![u][m] = @ + 1],
          code |-> IF r.res = "ok" THEN "success" ELSE "error",
          wasSent |-> TRUE, body |-> body, mark |-> r.res]
SendAndMark(tbl, pend, sent, u, m, body, env) ==
    SendAndMarkOf(tbl, pend, sent, u, m, body, env,
                  mark_as_processed(tbl, m, u, "responded", body,
                                    PendingCls(pend[u][m]), env # "db_fails"))

\* mark_as_processed with status rejected (outcome r) and
\* `del user_pending[email_id]`
RejectAndMarkOf(pend, sent, u, m, r) ==
    [tbl |-> r.tbl,
     pend |-> IF r.res = "ok" THEN [pend EXCEPT ![u][m] = NoPending] ELSE pend,
     sent |-> sent,
     code |-> IF r.res = "ok" THEN "success" ELSE "error",
     wasSent |-> FALSE, body |-> None, mark |-> r.res]
RejectAndMark(tbl, pend, sent, u, m, env) ==
    RejectAndMarkOf(pend, sent, u, m,
                    mark_as_processed(tbl, m, u, "rejected", None,
                                      PendingCls(pend[u][m]), env # "db_fails"))

\* the try block of approve_response for a pending email_id
ApproveBody(tbl, pend, sent, u, m, action, edited, env) ==
    IF env = "client_raises" THEN Unchanged(tbl, pend, sent, "error")
    ELSE IF action \in {"approve", "edit"} /\ (action = "edit" => OrElse(edited, None) # None)
    THEN SendAndMark(tbl, pend, sent, u, m,
                     IF action = "edit" THEN edited
                     ELSE OrElse(pend[u][m].edited_response,
                                 pend[u][m].draft_response),
                     env)
    ELSE IF action = "edit" THEN Unchanged(tbl, pend, sent, "null")
    ELSE IF action = "save_edit"
    THEN IF OrElse(edited, None) # None
         THEN Unchanged(tbl, [pend EXCEPT ![u][m].edited_response = edited],
                        sent, "success")
         ELSE Unchanged(tbl, pend, sent, "null")
    ELSE IF action = "reject"
    THEN RejectAndMark(tbl, pend, sent, u, m, env)
    ELSE Unchanged(tbl, pend, sent, "error")

\* approve_response: the outcome of the request, with its HTTP status
ApproveRunOf(r) ==
    [out |-> r,
     http |-> IF r.code = "not_found" THEN 404
              ELSE IF r.code \in {"success", "null"} THEN 200 ELSE 500]
\* approve_response without its check that email_id is pending
ApproveRun_no_404(tbl, pend, sent, u, m, action, edited, env) ==
    ApproveRunOf(ApproveBody(tbl, pend, sent, u, m, action, edited, env))
ApproveRun(tbl, pend, sent, u, m, action, edited, env) ==
    ApproveRunOf(IF m \notin user_pending(pend, u)
                 THEN Unchanged(tbl, pend, sent, "not_found")
                 ELSE ApproveBody(tbl, pend, sent, u, m, action, edited, env))

ApproveInstall(r, u, m) ==
    /\ r.sent[u][m] <= MaxSent
    /\ emails' = r.tbl
    /\ pending' = r.pend
    /\ sentCount' = r.sent
    /\ UNCHANGED <<genVars, wfVars, userVars>>
approve_response(u, m, action, edited, env) ==
    ApproveInstall(ApproveRun(emails, pending, sentCount, u, m, action,
                              edited, env).out, u, m)

\* the inputs of a request: each (action, edited, env) the handler tells apart
ApproveInputs ==
    { i \in [action : Actions, edited : Edits, env : Envs] :
        /\ i.action \in {"approve", "reject", "other"} => i.edited = None
        /\ i.action = "reject" => i.env \in {"ok", "client_raises", "db_fails"}
        /\ (i.action \in {"save_edit", "other"}
            \/ (i.action = "edit" /\ i.edited = None))
              => i.env \in {"ok", "client_raises"} }

-----------------------------------------------------------------------------
(* POST /api/batch-approve                                                 *)

BatchActions == {"approve", "reject", "other"}

\* one iteration of the loop of batch_approve: the outcome for the item;
\* code "none" when the iteration appends no result
BatchOne(tbl, pend, sent, u, item) ==
    IF item.email_id \notin user_pending(pend, u)
    THEN Unchanged(tbl, pend, sent, "not_found")
    ELSE IF item.action = "approve"
    THEN SendAndMark(tbl, pend, sent, u, item.email_id,
                     pend[u][item.email_id].draft_response, item.env)
    ELSE IF item.action = "reject"
    THEN RejectAndMark(tbl, pend, sent, u, item.email_id, item.env)
    ELSE Unchanged(tbl, pend, sent, "none")

\* what batch_approve appends to results for an item
BatchResult(item, one) ==
    [email_id |-> item.email_id, action |-> item.action,
     success |-> one.code = "success", wasSent |-> one.wasSent,
     body |-> one.body, code |-> one.code]

\* the loop of batch_approve over items: st[i] is the state after i
\* iterations, results holding one entry per result appended
BatchStepOf(prev, item, one) ==
    [tbl |-> one.tbl, pend |-> one.pend, sent |-> one.sent,
     results |-> IF one.code # "none"
                 THEN Append(prev.results, BatchResult(item, one))
                 ELSE prev.results]
BatchStep(prev, u, item) ==
    BatchStepOf(prev, item, BatchOne(prev.tbl, prev.pend, prev.sent, u, item))
BatchLoop(tbl, pend, sent, u, items) ==
    LET st[i \in 0..Len(items)] ==
            IF i = 0
            THEN [tbl |-> tbl, pend |-> pend, sent |-> sent, results |-> <<>>]
            ELSE BatchStep(st[i-1], u, items[i])
    IN st[Len(items)]

\* batch_approve: the outcome of the request and the totals it reports
BatchTotalsOf(r, http, successful) ==
    [tbl |-> r.tbl, pend |-> r.pend, sent |-> r.sent, http |-> http,
     results |-> r.results, total |-> Len(r.results),
     successful |-> successful, failed |-> Len(r.results) - successful]
BatchRunOf(r, http) ==
    BatchTotalsOf(r, http,
                  Cardinality({i \in 1..Len(r.results) : r.results[i].success}))
BatchRun(tbl, pend, sent, u, clientOk, items) ==
    BatchRunOf(BatchLoop(tbl, pend, sent, u, IF clientOk THEN items ELSE <<>>),
               IF clientOk THEN 200 ELSE 500)

BatchInstall(r, u) ==
    /\ \A m \in Msgs : r.sent[u][m] <= MaxSent
    /\ emails' = r.tbl
    /\ pending' = r.pend
    /\ sentCount' = r.sent
    /\ UNCHANGED <<genVars, wfVars, userVars>>
batch_approve(u, clientOk, items) ==
    BatchInstall(BatchRun(emails, pending, sentCount, u, clientOk, items), u)

\* the items of a request, each with what the mailbox and the database do
\* while it is handled; an item for an id that is in no mailbox is answered
\* not found whatever its action
BatchItems ==
    { i \in [email_id : Msgs, action : BatchActions,
             env : {"ok", "send_false", "db_fails"}] :
        /\ i.action = "reject" => i.env \in {"ok", "db_fails"}
        /\ i.action = "other" => i.env = "ok"
        /\ (\A u \in Users : i.email_id \notin Mailbox(u))
              => (i.env = "ok" /\ i.action = "approve") }
BatchRequests == UNION { [1..n -> BatchItems] : n \in 0..MaxBatch }

-----------------------------------------------------------------------------
(* GET /api/pending, GET /api/stats, DELETE /api/pending/clear, restart     *)

\* the response of get_pending_responses: the user's pending entries
PendingRun(pend, u) == [m \in user_pending(pend, u) |-> pend[u][m]]

get_pending_responses(u) ==
    /\ DOMAIN PendingRun(pending, u) \subseteq Msgs
    /\ UNCHANGED vars

\* the response of get_stats: Database.get_stats over the user's rows, and
\* the size of the user's pending dict
StatsRun(tbl, pend, u) ==
    [total_processed |-> Cardinality({m \in Msgs : is_processed(tbl, m, u)}),
     by_status |-> [s \in Statuses |->
                      Cardinality({m \in Msgs : is_processed(tbl, m, u)
                                                /\ tbl[m].status = s})],
     pending_approvals |-> Cardinality(user_pending(pend, u))]

get_stats(u) ==
    /\ StatsRun(emails, pending, u).total_processed >= 0
    /\ UNCHANGED vars

\* clear_pending: pending_responses[user_id] = {}
clear_pending(u) ==
    /\ pending' = [pending EXCEPT ![u] = [m \in Msgs |-> NoPending]]
    /\ UNCHANGED <<emails, sentCount, genVars, wfVars, userVars>>

\* a restart of the process: the module-level dicts start empty again
Restart ==
    /\ pending' = [u \in Users |-> [m \in Msgs |-> NoPending]]
    /\ UNCHANGED <<emails, sentCount, genVars, wfVars, userVars>>

-----------------------------------------------------------------------------
FetchNewEmails ==
    \E u \in Users, connected \in BOOLEAN :
      \E unread \in SUBSET Mailbox(u) :
        fetch_new_emails(u, connected, unread)
ProcessEmails ==
    \E u \in Users, connected \in BOOLEAN :
      \E unread \in SUBSET Mailbox(u) :
        \E out \in ProcessInputs(u, unread) :
            process_emails(u, connected, unread, out)
ApproveResponse ==
    \E u \in Users, m \in Msgs, i \in ApproveInputs :
        /\ m \notin user_pending(pending, u) => i.env = "ok"
        /\ approve_response(u, m, i.action, i.edited, i.env)
BatchApprove ==
    \E u \in Users, clientOk \in BOOLEAN, items \in BatchRequests :
        /\ ~clientOk => items = <<>>
        /\ batch_approve(u, clientOk, items)
GetPendingResponses == \E u \in Users : get_pending_responses(u)
GetStats == \E u \in Users : get_stats(u)
ClearPending == \E u \in Users : clear_pending(u)

Next ==
    \/ FetchNewEmails
    \/ ProcessEmails
    \/ ApproveResponse
    \/ BatchApprove
    \/ GetPendingResponses
    \/ GetStats
    \/ ClearPending
    \/ Restart

Spec == Init /\ [][Next]_vars

-----------------------------------------------------------------------------
(* SpecGen: generate_response on every LLM answer of bounded length        *)

\* the LLM's text holds at most MaxLen tokens
MaxLen == 4

TokenStrings == UNION { [1..n -> Tokens] : n \in 0..MaxLen }
\* the LLM call raises, or returns one of the token strings
AllReplies == {NoReply} \cup [raises : {FALSE}, text : TokenStrings]

GenInit ==
    /\ llmReply \in AllReplies
    /\ generated = NoResponse

\* a call of generate_response for an email with the given subject
GenerateInstall(subject, g) ==
    /\ generated' = [subject |-> subject, raised |-> g.raised, value |-> g.value]
    /\ UNCHANGED <<llmReply, apiVars, wfVars, userVars>>
GenerateResponse ==
    \E subject \in Subjects :
        GenerateInstall(subject, generate_response(subject, llmReply))

\* a process_emails run of u over the unread message m1, decided respond,
\* in which the LLM answers llmReply to generate_response
RespondOutcome(cls) ==
    [m \in Msgs |-> IF m = "m1"
                    THEN [kind |-> "respond", cls |-> cls, llm |-> llmReply,
                          dbok |-> TRUE]
                    ELSE NoOutcome]
GenProcessEmails ==
    \E u \in Users, cls \in EmailAnalysis :
        process_emails(u, TRUE, {"m1"}, RespondOutcome(cls))

SpecGenNext ==
    \/ GenerateResponse
    \/ GenProcessEmails

SpecGenInit == ApiInit /\ GenInit /\ WfIdle /\ UsersIdle
SpecGen == SpecGenInit /\ [][SpecGenNext]_vars

-----------------------------------------------------------------------------
(* SpecWf: langgraph_workflow.py, HumanInLoopWorkflow.  wf is the state    *)
(* dict of the run (the fields the nodes route on or write), with          *)
(*   node   the node the graph runs next, "END" after the last node,       *)
(*          "raised" when a node raised and process_email gave up          *)
(*   trace  the nodes that ran in this run, in order                       *)
(*   sent   the body send_reply sent, db the status written to the table   *)

\* the console answers one request_approval call may read
MaxInputs == 2

\* the categories the LLM assigns in a run
WfCategories == {"work", "marketing"}
\* config.AUTO_APPROVE_CATEGORIES: the shipped value and the two examples
AutoApproveConfigs == {{}, {"marketing"}, {"support", "marketing"}}
\* config.REQUIRE_APPROVAL: True by default, False documented as auto-send mode;
\* no module imports it
RequireApprovalConfigs == BOOLEAN

\* an answer at the prompt: y, n, e followed by a text ("e") or by a blank
\* text ("e_blank"), anything else ("x")
Choices == {"y", "n", "e", "e_blank", "x"}
ChoiceSeqs == UNION { [1..n -> Choices] : n \in 0..MaxInputs }

\* process_email: the initial state of a run
initial_state(auto, require) ==
    [node |-> "analyze", trace |-> <<>>, category |-> None, decision |-> None,
     response_body |-> None, approval_status |-> "pending",
     user_approval |-> FALSE, sent |-> None, db |-> None, auto_approve |-> auto,
     require_approval |-> require]

\* the graph: add_edge and add_conditional_edges
should_respond(state) == IF state.decision = "respond" THEN "respond" ELSE "skip"
DecideEdges(route) == IF route = "respond" THEN "generate_response" ELSE "skip"
check_approval_always_approved(state) == "approved"
check_approval(state) == state.approval_status
ApprovalEdges(route) ==
    IF route \in {"approved", "auto"} THEN "send_response"
    ELSE IF route = "rejected" THEN "skip"
    ELSE "raised"

\* the graph runs node name on state and goes on to next
Ran(state, name, next) ==
    [state EXCEPT !.trace = Append(@, name), !.node = next]

\* node analyze: the LLM's category, or the default analysis when it raises
analyze_email(state, llm) ==
    Ran([state EXCEPT !.category = IF llm = "raises" THEN "unknown" ELSE llm],
        "analyze", "decide")

\* node decide: llm.decide_action is not guarded
DecideRoute(state) == Ran(state, "decide", DecideEdges(should_respond(state)))
decide_action(state, llm) ==
    IF llm = "raises" THEN Ran(state, "decide", "raised")
    ELSE DecideRoute([state EXCEPT !.decision = llm])

\* node generate_response, g being what LLMClient.generate_response did
GenerateNodeOf(state, g) ==
    IF g.raised THEN Ran(state, "generate_response", "raised")
    ELSE Ran([state EXCEPT !.response_body = g.value.response_body,
                           !.approval_status = "pending"],
             "generate_response", "request_approval")
generate_response_node(state, llm) ==
    GenerateNodeOf(state, generate_response("s1", llm))

\* one answer at the prompt of request_approval
ApprovalInput(state, c) ==
    IF c = "y"
    THEN [s |-> [state EXCEPT !.user_approval = TRUE,
                              !.approval_status = "approved"], done |-> TRUE]
    ELSE IF c = "n"
    THEN [s |-> [state EXCEPT !.user_approval = FALSE,
                              !.approval_status = "rejected"], done |-> TRUE]
    ELSE IF c = "e"
    THEN [s |-> [state EXCEPT !.response_body = "e1", !.user_approval = TRUE,
                              !.approval_status = "approved"], done |-> TRUE]
    ELSE [s |-> state, done |-> FALSE]
ApprovalStep(prev, c) == IF prev.done THEN prev ELSE ApprovalInput(prev.s, c)
\* the `while True` loop over the answers choices
ApprovalLoop(state, choices) ==
    LET st[i \in 0..Len(choices)] ==
            IF i = 0 THEN [s |-> state, done |-> FALSE]
            ELSE ApprovalStep(st[i-1], choices[i])
    IN st[Len(choices)]

\* node request_approval: auto-approval by category, or the loop; when the
\* answers run out input() raises
ApprovalRoute(state) ==
    Ran(state, "request_approval", ApprovalEdges(check_approval(state)))
ApprovalOf(state, r) ==
    IF r.done THEN ApprovalRoute(r.s)
    ELSE Ran(state, "request_approval", "raised")
\* request_approval approving every category without asking
request_approval_auto(state, choices) ==
    ApprovalRoute([state EXCEPT !.user_approval = TRUE,
                                !.approval_status = "auto"])
request_approval(state, choices) ==
    IF state.category \in state.auto_approve
    THEN ApprovalRoute([state EXCEPT !.user_approval = TRUE,
                                     !.approval_status = "auto"])
    ELSE ApprovalOf(state, ApprovalLoop(state, choices))

\* node send_response: send_reply, then mark_as_processed on success
send_response(state, env) ==
    IF env = "send_raises" THEN Ran(state, "send_response", "raised")
    ELSE IF env = "send_false" THEN Ran(state, "send_response", "END")
    ELSE IF env = "db_fails"
    THEN Ran([state EXCEPT !.sent = state.response_body], "send_response", "raised")
    ELSE Ran([state EXCEPT !.sent = state.response_body, !.db = "responded"],
             "send_response", "END")

\* node skip
skip_email(state, dbok) ==
    IF dbok THEN Ran([state EXCEPT !.db = "skipped"], "skip", "END")
    ELSE Ran(state, "skip", "raised")

WfInstall(state) ==
    /\ wf' = state
    /\ UNCHANGED <<apiVars, genVars, userVars>>

\* process_email is called for the next email
WfStart ==
    /\ wf.node \in {"idle", "END", "raised"}
    /\ WfInstall(initial_state(wf.auto_approve, wf.require_approval))
WfAnalyze ==
    /\ wf.node = "analyze"
    /\ \E llm \in WfCategories \cup {"raises"} : WfInstall(analyze_email(wf, llm))
WfDecide ==
    /\ wf.node = "decide"
    /\ \E llm \in DecisionActions \cup {"raises"} : WfInstall(decide_action(wf, llm))
WfGenerateResponse ==
    /\ wf.node = "generate_response"
    /\ \E llm \in LLMReplies : WfInstall(generate_response_node(wf, llm))
WfRequestApproval ==
    /\ wf.node = "request_approval"
    /\ \E choices \in ChoiceSeqs : WfInstall(request_approval(wf, choices))
WfSendResponse ==
    /\ wf.node = "send_response"
    /\ \E env \in {"ok", "send_false", "send_raises", "db_fails"} :
          WfInstall(send_response(wf, env))
WfSkip ==
    /\ wf.node = "skip"
    /\ \E dbok \in BOOLEAN : WfInstall(skip_email(wf, dbok))

WfInit ==
    \E auto \in AutoApproveConfigs, require \in RequireApprovalConfigs :
        wf = [NoWf EXCEPT !.auto_approve = auto, !.require_approval = require]

SpecWfNext ==
    \/ WfStart
    \/ WfAnalyze
    \/ WfDecide
    \/ WfGenerateResponse
    \/ WfRequestApproval
    \/ WfSendResponse
    \/ WfSkip

SpecWfInit == ApiInit /\ GenIdle /\ WfInit /\ UsersIdle
SpecWf == SpecWfInit /\ [][SpecWfNext]_vars

-----------------------------------------------------------------------------
(* SpecUsers: auth.py.  users is the committed content of the users table, *)
(* a sequence of rows (a row's position standing for its uuid).  Requests  *)
(* run in workers that share the table; one step is one database           *)
(* statement.  A request remembers                                         *)
(*   seen     the row its SELECT returned (0: none)                        *)
(*   existed  whether a row with its email existed when it arrived         *)
(*   result   how it ended                                                 *)

\* the table holds at most MaxUsers rows
MaxUsers == 3

Addresses == {"a", "b"}
GoogleIds == {"g1", "g2"}

\* get_user_by_email: the position of the row with this email, 0 if none
get_user_by_email(tbl, email) ==
    IF \E i \in 1..Len(tbl) : tbl[i].email = email
    THEN CHOOSE i \in 1..Len(tbl) :
            tbl[i].email = email /\ \A j \in 1..(i-1) : tbl[j].email # email
    ELSE 0

\* the UNIQUE constraints of UserModel hold in tbl once row i has the
\* values of row: email is unique, google_id is unique among non-null values
unique_ok_unchecked(tbl, i, row) == TRUE
unique_ok(tbl, i, row) ==
    \A j \in 1..Len(tbl) :
        j # i => /\ tbl[j].email # row.email
                 /\ row.google_id # None => tbl[j].google_id # row.google_id

\* a request arrives
NewReq(kind, email, google_id, tbl) ==
    [kind |-> kind, pc |-> "select", email |-> email, google_id |-> google_id,
     seen |-> 0, existed |-> get_user_by_email(tbl, email) # 0, result |-> None]
Done(req, result) == [req EXCEPT !.pc = "done", !.result = result]

\* create_user, the SELECT: the request is refused when a row is found
create_user_select(req, i) ==
    IF i # 0 THEN Done(req, "Email already registered")
    ELSE [req EXCEPT !.pc = "insert"]
\* create_user, db.add and db.commit: the row, or IntegrityError
UserRow(req) ==
    [email |-> req.email, google_id |-> None, auth_provider |-> "email"]
create_user_insert(tbl, req) ==
    IF unique_ok(tbl, 0, UserRow(req))
    THEN [tbl |-> Append(tbl, UserRow(req)), req |-> Done(req, "created")]
    ELSE [tbl |-> tbl, req |-> Done(req, "IntegrityError")]

\* create_user_from_google, the SELECT: an existing row without google_id is
\* updated, one with a google_id is returned, no row leads to an INSERT
google_select(tbl, req, i) ==
    IF i = 0 THEN [req EXCEPT !.pc = "insert"]
    ELSE IF tbl[i].google_id = None THEN [req EXCEPT !.pc = "update", !.seen = i]
    ELSE Done(req, "existing")
\* the UPDATE of the row the SELECT returned
google_update(tbl, req) ==
    IF unique_ok(tbl, req.seen, [tbl[req.seen] EXCEPT !.google_id = req.google_id])
    THEN [tbl |-> [tbl EXCEPT ![req.seen].google_id = req.google_id,
                              ![req.seen].auth_provider = "google"],
          req |-> Done(req, "existing")]
    ELSE [tbl |-> tbl, req |-> Done(req, "IntegrityError")]
\* the INSERT of a new row
GoogleRow(req) ==
    [email |-> req.email, google_id |-> req.google_id, auth_provider |-> "google"]
google_insert(tbl, req) ==
    IF unique_ok(tbl, 0, GoogleRow(req))
    THEN [tbl |-> Append(tbl, GoogleRow(req)), req |-> Done(req, "created")]
    ELSE [tbl |-> tbl, req |-> Done(req, "IntegrityError")]

UsersInstall(p, r) ==
    /\ Len(r.tbl) <= MaxUsers
    /\ users' = r.tbl
    /\ reqs' = [reqs EXCEPT ![p] = r.req]
    /\ UNCHANGED <<apiVars, genVars, wfVars>>

\* POST /api/auth/register arrives at worker p
Register(p) ==
    /\ reqs[p].pc = "done"
    /\ \E email \in Addresses :
          UsersInstall(p, [tbl |-> users,
                           req |-> NewReq("register", email, None, users)])
\* a Google sign-in arrives at worker p
GoogleSignIn(p) ==
    /\ reqs[p].pc = "done"
    /\ \E email \in Addresses, g \in GoogleIds :
          UsersInstall(p, [tbl |-> users,
                           req |-> NewReq("google", email, g, users)])
RegisterSelect(p) ==
    /\ reqs[p].kind = "register" /\ reqs[p].pc = "select"
    /\ UsersInstall(p, [tbl |-> users,
                        req |-> create_user_select(reqs[p],
                                    get_user_by_email(users, reqs[p].email))])
RegisterInsert(p) ==
    /\ reqs[p].kind = "register" /\ reqs[p].pc = "insert"
    /\ UsersInstall(p, create_user_insert(users, reqs[p]))
GoogleSelect(p) ==
    /\ reqs[p].kind = "google" /\ reqs[p].pc = "select"
    /\ UsersInstall(p, [tbl |-> users,
                        req |-> google_select(users, reqs[p],
                                    get_user_by_email(users, reqs[p].email))])
GoogleUpdate(p) ==
    /\ reqs[p].kind = "google" /\ reqs[p].pc = "update"
    /\ UsersInstall(p, google_update(users, reqs[p]))
GoogleInsert(p) ==
    /\ reqs[p].kind = "google" /\ reqs[p].pc = "insert"
    /\ UsersInstall(p, google_insert(users, reqs[p]))

SpecUsersNext ==
    \E p \in Procs :
        \/ Register(p)
        \/ GoogleSignIn(p)
        \/ RegisterSelect(p)
        \/ RegisterInsert(p)
        \/ GoogleSelect(p)
        \/ GoogleUpdate(p)
        \/ GoogleInsert(p)

SpecUsersInit == ApiInit /\ GenIdle /\ WfIdle /\ UsersIdle
SpecUsers == SpecUsersInit /\ [][SpecUsersNext]_vars

-----------------------------------------------------------------------------
(* Claims about the HTTP API (specification Spec)                          *)

\* a reply for message m leaves u's mailbox in this step
SentBy(u, m) == sentCount'[u][m] > sentCount[u][m]

\* the step is u's approve or edit request for m
ApproveOrEditStep(u, m) ==
    \E i \in ApproveInputs :
        /\ i.action \in {"approve", "edit"}
        /\ approve_response(u, m, i.action, i.edited, i.env)

\* the step is a batch-approve request of u with an approve item for m
BatchApproveItemStep(u, m) ==
    \E items \in BatchRequests :
        /\ \E k \in 1..Len(items) :
              items[k].email_id = m /\ items[k].action = "approve"
        /\ batch_approve(u, TRUE, items)

\* the step is one of the operations that must never send
NonSendingStep ==
    \/ FetchNewEmails
    \/ ProcessEmails
    \/ GetStats
    \/ GetPendingResponses
    \/ ClearPending
    \/ \E u \in Users, m \in Msgs, i \in ApproveInputs :
          /\ i.action \in {"save_edit", "reject"}
          /\ approve_response(u, m, i.action, i.edited, i.env)

\* C1: a reply leaves a user's mailbox only in a step that is that user's
\* approve or edit request, or a batch-approve request of that user with an
\* approve item, for a message whose draft is pending for that user before
\* the step; fetch, process, save_edit, reject, clear and stats send nothing.
C1_SendOnlyOnApproval ==
    [][/\ \A u \in Users, m \in Msgs :
            SentBy(u, m) => /\ pending[u][m] # NoPending
                            /\ ApproveOrEditStep(u, m) \/ BatchApproveItemStep(u, m)
       /\ sentCount' # sentCount => ~NonSendingStep]_vars

\* a reply was sent and recorded
C1_Witness ==
    \E u \in Users, m \in Msgs :
        sentCount[u][m] > 0 /\ is_processed(emails, m, u)
        /\ emails[m].status = "responded"

\* C2: every row's status is responded, skipped or rejected, and a row that
\* exists keeps its status in every step.
C2_StatusTerminal ==
    [][\A m \in Msgs :
          /\ emails'[m] # NoRec => emails'[m].status \in Statuses
          /\ emails[m] # NoRec => /\ emails'[m].user_id = emails[m].user_id
                                  /\ emails'[m].status = emails[m].status]_vars

\* C3: a message id marked as processed for one user can be marked for
\* another user too, and then is_processed holds for both.
C3_KeyIsUserAndMessage ==
    \A u \in Users, v \in Users, m \in Msgs :
        (u # v /\ is_processed(emails, m, u)) =>
            /\ mark_as_processed(emails, m, v, "skipped", None, NoCls, TRUE).res = "ok"
            /\ is_processed(mark_as_processed(emails, m, v, "skipped", None,
                                              NoCls, TRUE).tbl, m, v)
            /\ is_processed(mark_as_processed(emails, m, v, "skipped", None,
                                              NoCls, TRUE).tbl, m, u)

\* C4: after an approve or edit request whose send succeeded, and after a
\* reject request, with the database up, the entry is no longer pending and
\* a further request for it is answered 404.
C4_DiscardedOnApprovalOrRejection ==
    [][\A u \in Users, m \in Msgs, i \in ApproveInputs :
          (/\ pending[u][m] # NoPending
           /\ i.env = "ok"
           /\ i.action \in {"approve", "reject"} \/ (i.action = "edit" /\ i.edited # None)
           /\ approve_response(u, m, i.action, i.edited, i.env))
          => /\ pending'[u][m] = NoPending
             /\ m \notin DOMAIN PendingRun(pending', u)
             /\ ApproveRun(emails', pending', sentCount', u, m, "approve",
                           None, "ok").http = 404]_vars

\* the table and the pending dict with everything of other users erased
OwnRows(tbl, a) ==
    [m \in Msgs |-> IF tbl[m] # NoRec /\ tbl[m].user_id = a THEN tbl[m] ELSE NoRec]
OwnPending(pend, a) ==
    [u \in Users |-> IF u = a THEN pend[u] ELSE [m \in Msgs |-> NoPending]]

\* the step is a request of user a that may write
StepOf(a) ==
    \/ \E connected \in BOOLEAN, unread \in SUBSET Mailbox(a) :
         \E out \in ProcessInputs(a, unread) :
            process_emails(a, connected, unread, out)
    \/ \E m \in Msgs, i \in ApproveInputs :
         approve_response(a, m, i.action, i.edited, i.env)
    \/ \E clientOk \in BOOLEAN, items \in BatchRequests :
         batch_approve(a, clientOk, items)
    \/ clear_pending(a)

\* C5: what a user's requests answer is the same with the other users'
\* rows and pending entries erased, and a step of one user leaves the other
\* users' rows and pending entries as they are.
C5_PerUserIsolation ==
    [][\A a \in Users :
        /\ \A m \in Msgs, i \in ApproveInputs :
              ApproveRun(emails, pending, sentCount, a, m, i.action, i.edited,
                         i.env).http
              = ApproveRun(OwnRows(emails, a), OwnPending(pending, a), sentCount,
                           a, m, i.action, i.edited, i.env).http
        /\ \A out \in ProcessInputs(a, Mailbox(a)) :
              ProcessRun(emails, pending, a, TRUE, Mailbox(a), out).did
              = ProcessRun(OwnRows(emails, a), OwnPending(pending, a), a, TRUE,
                           Mailbox(a), out).did
        /\ \A unread \in SUBSET Mailbox(a) :
              FetchRun(emails, a, TRUE, unread)
              = FetchRun(OwnRows(emails, a), a, TRUE, unread)
        /\ PendingRun(pending, a) = PendingRun(OwnPending(pending, a), a)
        /\ StatsRun(emails, pending, a)
           = StatsRun(OwnRows(emails, a), OwnPending(pending, a), a)
        /\ \A b \in Users \ {a} :
              StepOf(a) => /\ pending'[b] = pending[b]
                           /\ OwnRows(emails', b) = OwnRows(emails, b)]_vars

\* C6: the decision follows from the classification: no draft exists for an
\* email classified as marketing, and no draft exists whose classification
\* is that of an email recorded as skipped.
C6_DecisionIsStatic ==
    \A u \in Users, m \in Msgs :
        pending[u][m] # NoPending =>
            /\ pending[u][m].category # "marketing"
            /\ \A n \in Msgs :
                  (emails[n] # NoRec /\ emails[n].status = "skipped") =>
                      <<emails[n].category, emails[n].priority, emails[n].sentiment>>
                      # <<pending[u][m].category, pending[u][m].priority,
                           pending[u][m].sentiment>>

\* an approve request, an edit request or a batch with one approve item, by
\* u for m, with the mailbox and the database answering: what it leaves, and
\* whether it reported success or not-found
ApproveKinds == {"approve", "edit", "batch"}
SingleOutcome(r) ==
    [tbl |-> r.out.tbl, pend |-> r.out.pend, sent |-> r.out.sent,
     success |-> r.out.code = "success", not_found |-> r.http = 404]
BatchOutcome(r) ==
    [tbl |-> r.tbl, pend |-> r.pend, sent |-> r.sent,
     success |-> r.successful = 1,
     not_found |-> r.results[1].code = "not_found"]
Concurrent(tbl, pend, sent, u, m, kind) ==
    IF kind = "batch"
    THEN BatchOutcome(BatchRun(tbl, pend, sent, u, TRUE,
                        << [email_id |-> m, action |-> "approve", env |-> "ok"] >>))
    ELSE SingleOutcome(ApproveRun(tbl, pend, sent, u, m, kind,
                                  IF kind = "edit" THEN "e1" ELSE None, "ok"))
TwoRequestsOf(first, second, sent, u, m) ==
    /\ second.sent[u][m] <= sent[u][m] + 1
    /\ ~(first.success /\ second.success)
    /\ first.success => second.not_found
TwoRequests(tbl, pend, sent, u, m, first, k2) ==
    TwoRequestsOf(first, Concurrent(first.tbl, first.pend, first.sent, u, m, k2),
                  sent, u, m)

\* C8: of two approve, edit or batch-approve requests of one user for one
\* pending entry, handled one after the other in either order with the
\* mailbox and the database answering, at most one sends a reply, at most
\* one reports success, and when the first succeeded the second is answered
\* not-found.
C8_OneReplyPerEntry ==
    \A u \in Users, m \in Msgs, k1 \in ApproveKinds, k2 \in ApproveKinds :
        pending[u][m] # NoPending =>
            TwoRequests(emails, pending, sentCount, u, m,
                        Concurrent(emails, pending, sentCount, u, m, k1), k2)

-----------------------------------------------------------------------------
(* Claims about HumanInLoopWorkflow (specification SpecWf)                 *)

\* the orders in which a run may execute the nodes up to END
WfPaths ==
    { <<"analyze", "decide", "skip">>,
      <<"analyze", "decide", "generate_response", "request_approval",
        "send_response">>,
      <<"analyze", "decide", "generate_response", "request_approval", "skip">> }
IsPrefix(s, t) == Len(s) <= Len(t) /\ SubSeq(t, 1, Len(s)) = s
\* the nodes that ran, followed by the node that runs next
Planned(w) ==
    IF w.node \in {"idle", "END", "raised"} THEN w.trace
    ELSE Append(w.trace, w.node)
InSeq(x, t) == \E i \in 1..Len(t) : t[i] = x

\* C7: the nodes a run executed, with the node it executes next, are an
\* initial part of analyze, decide, skip or of analyze, decide,
\* generate_response, request_approval and then send_response or skip; a run
\* that reached END executed one of these orders completely; no node runs
\* twice; generate_response runs only when the decision is respond;
\* send_response runs only after request_approval set approval_status to
\* approved or auto; a rejected draft goes to skip and nothing is sent.
C7_WorkflowOrder ==
    /\ \E path \in WfPaths : IsPrefix(Planned(wf), path)
    /\ wf.node = "END" => wf.trace \in WfPaths
    /\ \A i \in 1..Len(wf.trace), j \in 1..Len(wf.trace) :
          i # j => wf.trace[i] # wf.trace[j]
    /\ InSeq("generate_response", Planned(wf)) => wf.decision = "respond"
    /\ InSeq("send_response", Planned(wf)) =>
          /\ InSeq("request_approval", wf.trace)
          /\ wf.approval_status \in {"approved", "auto"}
    /\ wf.approval_status = "rejected" =>
          /\ ~InSeq("send_response", Planned(wf))
          /\ wf.node \in {"skip", "END", "raised"}
    /\ wf.sent # None => InSeq("send_response", wf.trace)
    /\ InSeq("send_response", wf.trace) \/ wf.approval_status = "rejected"
          => InSeq("request_approval", wf.trace)

\* a run in which the draft was rejected at the prompt ended in skip
C7_Witness ==
    /\ wf.node = "END"
    /\ wf.approval_status = "rejected"
    /\ wf.trace = <<"analyze", "decide", "generate_response",
                    "request_approval", "skip">>
    /\ wf.db = "skipped" /\ wf.sent = None

-----------------------------------------------------------------------------
(* Claims about generate_response (specification SpecGen)                  *)

\* the text holds a JSON object that parses and validates as EmailResponse
ContainsValidObject(text) ==
    \E i \in 1..Len(text), j \in 1..Len(text) :
        i <= j /\ ParseAttempt(SubSeq(text, i, j)).kind = "return"

\* the step is a process_emails run of u in which m1 is decided respond
RespondStep(u) ==
    \E cls \in EmailAnalysis : process_emails(u, TRUE, {"m1"}, RespondOutcome(cls))

\* C9: a call of generate_response does not raise and returns a valid
\* EmailResponse, which is the fallback (formal, 0.5, a body quoting the
\* subject) when the LLM call raised or its text holds no valid object; and
\* after a process_emails run in which m1 is decided respond, a draft for m1
\* is pending for that user.
C9_GenerateNeverRaises ==
    [][/\ generated' # NoResponse =>
            /\ ~generated'.raised
            /\ ValidEmailResponse(generated'.value)
            /\ (llmReply.raises \/ ~ContainsValidObject(llmReply.text)) =>
                  /\ generated'.value = Fallback(generated'.subject)
                  /\ generated'.value.tone = "formal"
                  /\ generated'.value.confidence = FallbackConfidence
       /\ \A u \in Users :
            RespondStep(u) =>
                /\ pending'[u]["m1"] # NoPending
                /\ pending'[u]["m1"].draft_response # None]_vars

\* the LLM returned braces that hold no valid object, generate_response
\* returned the fallback, and process_emails stored it as the draft
C9_Witness ==
    /\ ~llmReply.raises
    /\ json_match(llmReply.text) # <<>>
    /\ ~ContainsValidObject(llmReply.text)
    /\ generated # NoResponse
    /\ generated.value = Fallback(generated.subject)
    /\ \E u \in Users :
          pending[u]["m1"].draft_response = FallbackBody(Subject("m1"))

-----------------------------------------------------------------------------
(* Claims about the users table (specification SpecUsers)                  *)

UsersUnique(tbl) ==
    \A i \in 1..Len(tbl), j \in 1..Len(tbl) :
        i # j => /\ tbl[i].email # tbl[j].email
                 /\ tbl[i].google_id # None => tbl[i].google_id # tbl[j].google_id

\* C10: after every step no two rows share an email and no two rows share a
\* non-null google_id; a register request that arrived when a row with its
\* email existed changes no row, and ends with Email already registered.
C10_UsersUnique ==
    [][/\ UsersUnique(users')
       /\ \A p \in Procs :
            (reqs'[p].kind = "register" /\ reqs'[p].existed) =>
                /\ reqs'[p] # reqs[p] => users' = users
                /\ reqs'[p].pc = "done" =>
                      reqs'[p].result = "Email already registered"]_vars

\* two requests for one email raced: one created the row and the other hit
\* the constraint, and a later register request was refused
C10_Witness ==
    /\ Len(users) = 2
    /\ \E p \in Procs, q \in Procs :
          /\ reqs[p].kind = "register" /\ reqs[p].existed
          /\ reqs[p].result = "Email already registered"
          /\ reqs[q].result = "IntegrityError"

-----------------------------------------------------------------------------
(* Further claims about HumanInLoopWorkflow (specification SpecWf)         *)

\* the answer that ends the loop of request_approval over choices: the first
\* of y, n and e (with a text); None when no answer ends it
Decisive(choices) ==
    IF \E k \in 1..Len(choices) : choices[k] \in {"y", "n", "e"}
    THEN choices[CHOOSE k \in 1..Len(choices) :
                    /\ choices[k] \in {"y", "n", "e"}
                    /\ \A j \in 1..(k-1) : choices[j] \notin {"y", "n", "e"}]
    ELSE None

\* C11: with AUTO_APPROVE_CATEGORIES empty approval_status is never auto; a
\* run goes from request_approval to send_response only when the answer that
\* ended the prompt was y, the draft being kept, or e with a text, the text
\* replacing the draft; and what send_response sends is that response.
C11_ApprovalRequired ==
    [][wf.auto_approve = {} =>
        /\ wf'.approval_status # "auto"
        /\ (wf.node = "request_approval" /\ wf'.node = "send_response") =>
              /\ \E choices \in ChoiceSeqs : wf' = request_approval(wf, choices)
              /\ \A choices \in ChoiceSeqs :
                    wf' = request_approval(wf, choices) =>
                      /\ Decisive(choices) \in {"y", "e"}
                      /\ Decisive(choices) = "y" =>
                            wf'.response_body = wf.response_body
                      /\ Decisive(choices) = "e" => wf'.response_body = "e1"
        /\ (wf.node = "send_response" /\ wf'.sent # None) =>
              /\ wf.approval_status = "approved"
              /\ wf'.sent = wf.response_body]_vars

\* with the list empty, the reviewer edited the draft and the edit was sent
C11_Witness ==
    /\ wf.auto_approve = {}
    /\ wf.node = "END"
    /\ wf.approval_status = "approved"
    /\ wf.sent = "e1"

\* C12: with REQUIRE_APPROVAL False a generated draft goes from
\* request_approval to send_response whatever the reviewer answers or leaves
\* unanswered, and with REQUIRE_APPROVAL True it goes there only through the
\* approval prompt's y or e.
C12_RequireApprovalControls ==
    [][wf.node = "request_approval" =>
        /\ ~wf.require_approval => wf'.node = "send_response"
        /\ (wf.require_approval /\ wf'.node = "send_response") =>
              \A choices \in ChoiceSeqs :
                  wf' = request_approval(wf, choices) =>
                      Decisive(choices) \in {"y", "e"}]_vars

\* C14: a workflow run in which the reviewer rejected the draft (answer n)
\* and that ran to its end has recorded the message with status rejected, as
\* approve_response and batch_approve do for action reject, and has sent
\* nothing.
C14_RejectedIsRecorded ==
    (wf.node = "END" /\ wf.approval_status = "rejected") =>
        /\ wf.db = "rejected"
        /\ wf.sent = None

-----------------------------------------------------------------------------
(* Further claims about the API (specification Spec)                       *)

\* the text an approval of a pending draft is to send: the saved edit if
\* there is one, else the draft
TextToSend(p) == IF p.edited_response # None THEN p.edited_response
                 ELSE p.draft_response
\* a batch request with the single item (m, action, env)
OneItem(m, action, env) == <<[email_id |-> m, action |-> action, env |-> env]>>

\* C13: for every pending draft, an approval whose send and record succeed
\* sends the saved edit if there is one and the draft otherwise, and records
\* that text as response_sent, be it the single approve action or a
\* batch-approve item with action approve.
C13_SavedEditIsSent ==
    \A u \in Users, m \in Msgs :
        pending[u][m] # NoPending =>
            /\ LET r == ApproveRun(emails, pending, sentCount, u, m, "approve",
                                   None, "ok").out
               IN  r.code = "success" =>
                       /\ r.body = TextToSend(pending[u][m])
                       /\ r.tbl[m].response_sent = TextToSend(pending[u][m])
            /\ LET b == BatchRun(emails, pending, sentCount, u, TRUE,
                                 OneItem(m, "approve", "ok"))
               IN  b.results[1].success =>
                       /\ b.results[1].body = TextToSend(pending[u][m])
                       /\ b.tbl[m].response_sent = TextToSend(pending[u][m])

\* (u, m) has a pending draft / a ProcessedEmail record
IsPending(u, m) == m \in user_pending(pending, u)
IsProcessed(u, m) == is_processed(emails, m, u)

\* C17: no (user, message) is both in the user's pending set and recorded as
\* processed for that user.
C17_PendingXorProcessed ==
    \A u \in Users, m \in Msgs : ~(IsPending(u, m) /\ IsProcessed(u, m))

\* C15: a restart empties every user's pending set and leaves every
\* ProcessedEmail record as it was; a message whose draft was pending at the
\* restart is afterwards neither pending nor processed, and the next
\* process_emails run that finds it unread and decides to respond drafts it
\* again.
C15_RestartForgetsPending ==
    [][Restart =>
        /\ \A u \in Users : user_pending(pending', u) = {}
        /\ emails' = emails
        /\ \A u \in Users, m \in Msgs :
              (m \in Mailbox(u) /\ IsPending(u, m)) =>
                  /\ ~is_processed(emails', m, u)
                  /\ \A out \in [Msgs -> Outcomes] :
                        out[m].kind = "respond" =>
                            ProcessRun(emails', pending', u, TRUE, {m}, out).did
                            = <<"drafted">>]_vars

\* C16: at most one reply is ever sent for a given (user, message).
C16_AtMostOneReply ==
    \A u \in Users, m \in Msgs : sentCount[u][m] <= 1

\* C18: when send_reply returns False in approve, in edit or in a
\* batch-approve item for a pending draft, the request changes no
\* ProcessedEmail record, leaves the pending entry (draft and saved edit) as
\* it was, sends nothing, and reports the failure: status 500 for approve and
\* edit, a result with success false for the batch item.
C18_SendFailureKeepsPending ==
    \A u \in Users, m \in Msgs :
        IsPending(u, m) =>
            /\ \A action \in {"approve", "edit"} :
                  LET r == ApproveRun(emails, pending, sentCount, u, m, action,
                                      "e1", "send_false")
                  IN  /\ r.out.tbl = emails
                      /\ r.out.pend = pending
                      /\ r.out.sent = sentCount
                      /\ ~r.out.wasSent
                      /\ r.http = 500
            /\ LET b == BatchRun(emails, pending, sentCount, u, TRUE,
                                 OneItem(m, "approve", "send_false"))
               IN  /\ b.tbl = emails
                   /\ b.pend = pending
                   /\ b.sent = sentCount
                   /\ Len(b.results) = 1
                   /\ ~b.results[1].success
                   /\ ~b.results[1].wasSent
                   /\ b.failed = 1

\* a draft with a saved edit is pending, and an approve request whose send
\* fails has been answered
C18_Witness ==
    \E u \in Users, m \in Msgs :
        /\ pending[u][m].edited_response = "e1"
        /\ ApproveRun(emails, pending, sentCount, u, m, "approve", None,
                      "send_false").out.code = "send_failed"

\* C19: an unread message with a ProcessedEmail record for the calling user
\* is not among the messages fetch_new_emails returns, and a process_emails
\* run passes over it, whatever the LLM and the database would do: it is not
\* analysed or decided, its record and the user's pending entry for it are
\* as before the run, so that repeating the operations changes nothing.
C19_ProcessedIsIgnored ==
    \A u \in Users, m \in Msgs :
        (m \in Mailbox(u) /\ IsProcessed(u, m)) =>
            /\ \A unread \in SUBSET Mailbox(u) :
                  m \notin FetchRun(emails, u, TRUE, unread).ids
            /\ \A out \in [Msgs -> Outcomes] :
                  LET r == ProcessRun(emails, pending, u, TRUE, {m}, out)
                  IN  /\ r.did = <<"already_processed">>
                      /\ r.tbl = emails
                      /\ r.pend = pending
                      /\ r.processed_count = 0

\* a message answered for a user is still unread, and fetch leaves it out
C19_Witness ==
    \E u \in Users, m \in Msgs :
        /\ m \in Mailbox(u)
        /\ IsProcessed(u, m)
        /\ emails[m].status = "responded"
        /\ FetchRun(emails, u, TRUE, {m}) = [http |-> 200, ids |-> {}]

\* the ProcessedEmail record of a skipped message classified cls
SkippedRec(u, cls) ==
    [user_id |-> u, status |-> "skipped", category |-> cls.category,
     priority |-> cls.priority, sentiment |-> cls.sentiment,
     response_sent |-> None]

\* C20: when the decision for an unread message without a record for the
\* user is skip and the database works, the process_emails run leaves a
\* record (user, message) with status skipped and the message's
\* classification, leaves the pending dict as it was, and does not count the
\* message in processed_count.
C20_SkipIsRecorded ==
    \A u \in Users, m \in Msgs :
        (m \in Mailbox(u) /\ ~IsProcessed(u, m)) =>
            \A out \in [Msgs -> Outcomes] :
                (out[m].kind = "skip" /\ out[m].dbok) =>
                    LET r == ProcessRun(emails, pending, u, TRUE, {m}, out)
                    IN  /\ r.tbl[m] = SkippedRec(u, out[m].cls)
                        /\ r.pend = pending
                        /\ r.processed_count = 0

\* C21: a process_emails run leaves every entry that was pending for the
\* user before it as it was (draft_response and saved edited_response),
\* whatever the LLM answers for the messages it finds unread.
C21_RerunKeepsPending ==
    \A u \in Users, m \in Msgs :
        IsPending(u, m) =>
            \A unread \in SUBSET Mailbox(u) :
                \A out \in ProcessInputs(u, unread) :
                    ProcessRun(emails, pending, u, TRUE, unread, out).pend[u][m]
                    = pending[u][m]

\* a batch request of two items for the same message
TwoItems(m, a1, a2) ==
    <<[email_id |-> m, action |-> a1, env |-> "ok"],
      [email_id |-> m, action |-> a2, env |-> "ok"]>>

\* C22: batch_approve reports one result per item submitted: total is the
\* number of items and total = successful + failed, also for an id that is
\* not pending, an id listed twice, and an action other than approve and
\* reject.
C22_OneResultPerItem ==
    \A u \in Users, m \in Msgs, a1 \in BatchActions, a2 \in BatchActions :
        LET b == BatchRun(emails, pending, sentCount, u, TRUE, TwoItems(m, a1, a2))
        IN  /\ b.total = 2
            /\ Len(b.results) = 2
            /\ b.total = b.successful + b.failed

====
